---- MODULE Spec2Model ----
(***************************************************************************)
(* Model of the region-highlight pipeline of the multi-organ viewer:       *)
(* the HeartMV component (frontend/components/HeartMV.tsx): Score          *)
(* Selector (affected), Target map (targets), Name Matcher (norm,          *)
(* variants, resolveTarget) and the highlight effect (fade all, then       *)
(* highlight the resolved targets), together with the mapping fetch        *)
(* effect of the wrapper component.                                        *)
(*                                                                         *)
(* Conventions.  Strings are sequences of one-character strings, so that   *)
(* trim, the regular expressions and norm are computed character by        *)
(* character.  Scores, thresholds, opacities and colour channels are       *)
(* integers in hundredths (0.25 is 25); emissive channels are in           *)
(* thousandths (0.6 * 0.8 is 480).  A JavaScript Map or object is a        *)
(* sequence of entries in iteration order with distinct keys.              *)
(***************************************************************************)
EXTENDS Integers, Sequences, FiniteSets, TLC

(***************************************************************************)
(* Characters and the names used by the mapping documents and the scenes.  *)
(***************************************************************************)
sNode == <<"N", "o", "d", "e">>
sMeshAnn == <<"(", "m", "e", "s", "h", ")">>
NodeA == sNode \o <<"A">>
NodeB == sNode \o <<"B">>
NodeC == sNode \o <<"C">>
NodeOnly == sNode
NodeA_t == NodeA \o <<".", "t">>
NodeA_J == NodeA \o <<".", "J">>
NodeA_L == NodeA \o <<".", "L">>
NodeA_mesh == NodeA \o <<" ">> \o sMeshAnn
NodeA_Mesh_t == NodeA \o <<" ", "(", "M", "e", "s", "h", ")", ".", "t">>
NodeA_t_mesh == NodeA_t \o <<" ">> \o sMeshAnn
NodeA_pad == <<" ">> \o NodeA \o <<" ">>
nodea == <<"n", "o", "d", "e", "a">>
Node_A == sNode \o <<"_", "A">>
sL == <<"L">>
sT == <<"t">>
sBlank == <<" ", " ">>
sEmpty == <<>>
sMissing == <<"X", "x">>
sUnderscore == <<"_">>
sHippocampus == <<"i", "p", "p", "o", "c", "a", "m", "p", "u", "s">>
Hippocampus_L == <<"H">> \o sHippocampus \o <<" ", "L">>
hippocampus_l == <<"h">> \o sHippocampus \o <<" ", "l">>

UpperToLower ==
  ("A" :> "a") @@ ("B" :> "b") @@ ("C" :> "c") @@ ("E" :> "e") @@
  ("H" :> "h") @@ ("J" :> "j") @@ ("L" :> "l") @@ ("M" :> "m") @@
  ("N" :> "n") @@ ("S" :> "s") @@ ("T" :> "t") @@ ("X" :> "x")

LowerLetters ==
  {"a", "b", "c", "d", "e", "h", "i", "j", "l", "m", "n", "o", "p", "s", "t", "u", "x"}

\* String.prototype.toLowerCase, one character.
toLowerCase(c) == IF c \in DOMAIN UpperToLower THEN UpperToLower[c] ELSE c

\* \p{L} or \p{N}: a letter or a digit.
IsAlnum(c) == c \in LowerLetters \/ c \in DOMAIN UpperToLower

\* \s: white space.
IsSpace(c) == c = " "

RECURSIVE trimStart(_)
trimStart(s) ==
  IF s # <<>> /\ IsSpace(Head(s)) THEN trimStart(Tail(s)) ELSE s

RECURSIVE trimEnd(_)
trimEnd(s) ==
  IF s # <<>> /\ IsSpace(s[Len(s)]) THEN trimEnd(SubSeq(s, 1, Len(s) - 1)) ELSE s

\* String.prototype.trim
trim(s) == trimEnd(trimStart(s))

\* s.replace(/[^\p{L}\p{N}]+/gu, " ").replace(/\s+/g, " "): every maximal run
\* of characters that are not letters or digits becomes one space.
RECURSIVE collapse(_, _)
collapse(s, inRun) ==
  IF s = <<>> THEN <<>>
  ELSE IF IsAlnum(Head(s)) THEN <<Head(s)>> \o collapse(Tail(s), FALSE)
  ELSE IF inRun THEN collapse(Tail(s), TRUE)
  ELSE <<" ">> \o collapse(Tail(s), TRUE)

\* norm: lower-case, collapse non-alphanumeric runs to one space, trim.
norm(s) == trim(collapse([i \in 1..Len(s) |-> toLowerCase(s[i])], FALSE))

\* String.prototype.includes: sub occurs in s as a contiguous substring.
includes(s, sub) ==
  \E i \in 0..(Len(s) - Len(sub)) : SubSeq(s, i + 1, i + Len(sub)) = sub

\* Characters the dot-suffix expression accepts after the dot: /\.(t|j)$/i.
DotSuffixLetters == {"t", "j"}

\* base.replace(/\.(t|j)$/i, "")
stripDotSuffix(s) ==
  IF /\ Len(s) >= 2
     /\ s[Len(s) - 1] = "."
     /\ toLowerCase(s[Len(s)]) \in DotSuffixLetters
  THEN SubSeq(s, 1, Len(s) - 2)
  ELSE s

\* base.replace(/\s*\(mesh\)\s*$/i, ""): the annotation at the end of the
\* string, with the white space around it; no match leaves s as it is.
stripMeshAnnotation(s) ==
  LET e == trimEnd(s)
      n == Len(e)
  IN IF /\ n >= 6
        /\ [i \in 1..6 |-> toLowerCase(e[n - 6 + i])] = sMeshAnn
     THEN trimEnd(SubSeq(e, 1, n - 6))
     ELSE s

\* [...new Set(xs)]: the distinct elements in order of first occurrence.
RECURSIVE dedupe(_, _)
dedupe(xs, seen) ==
  IF xs = <<>> THEN <<>>
  ELSE IF Head(xs) \in seen THEN dedupe(Tail(xs), seen)
  ELSE <<Head(xs)>> \o dedupe(Tail(xs), seen \cup {Head(xs)})

\* The variants without the composition of the two rewrites.
variantsNoCompose(raw) ==
  LET base == trim(raw)
  IN dedupe(<<base, stripDotSuffix(base), stripMeshAnnotation(base)>>, {})

\* variants(raw): the trimmed name and its three rewrites, without repeats.
variants(raw) ==
  LET base == trim(raw)
  IN dedupe(<<base,
              stripDotSuffix(base),
              stripMeshAnnotation(base),
              stripMeshAnnotation(stripDotSuffix(base))>>, {})

(***************************************************************************)
(* The name index: a Map from node name to node, as a sequence of entries  *)
(* [name, node] in insertion order.  NoNode is the null result.            *)
(***************************************************************************)
NoNode == 0

indexKeys(idx) == {idx[i].name : i \in 1..Len(idx)}

\* Map.prototype.get; NoNode when the key is absent.
indexGet(idx, key) ==
  IF \E i \in 1..Len(idx) : idx[i].name = key
  THEN idx[CHOOSE i \in 1..Len(idx) : idx[i].name = key].node
  ELSE NoNode

\* The loop over the variants: the first variant that is a key.
RECURSIVE firstVariantHit(_, _)
firstVariantHit(idx, vs) ==
  IF vs = <<>> THEN NoNode
  ELSE IF indexGet(idx, Head(vs)) # NoNode THEN indexGet(idx, Head(vs))
  ELSE firstVariantHit(idx, Tail(vs))

\* A comparison that accepts a key only when it contains the target.
fuzzyMatchesOneWay(name, t) ==
  LET n == norm(name) IN n = t \/ includes(n, t)

\* n === t || n.includes(t) || t.includes(n)
fuzzyMatches(name, t) ==
  LET n == norm(name) IN n = t \/ includes(n, t) \/ includes(t, n)

\* The loop over the index: the first key, in iteration order, that matches.
RECURSIVE firstFuzzyHit(_, _)
firstFuzzyHit(idx, t) ==
  IF idx = <<>> THEN NoNode
  ELSE IF fuzzyMatches(Head(idx).name, t) THEN Head(idx).node
  ELSE firstFuzzyHit(Tail(idx), t)

\* A matcher that consults the fuzzy tier first.
resolveFuzzyFirst(idx, raw) ==
  LET f == firstFuzzyHit(idx, norm(raw))
  IN IF f # NoNode THEN f
     ELSE IF indexGet(idx, raw) # NoNode THEN indexGet(idx, raw)
     ELSE firstVariantHit(idx, variants(raw))

\* resolveTarget: exact, then the variants, then the fuzzy comparison.
resolveTarget(idx, raw) ==
  IF indexGet(idx, raw) # NoNode THEN indexGet(idx, raw)
  ELSE IF firstVariantHit(idx, variants(raw)) # NoNode
       THEN firstVariantHit(idx, variants(raw))
  ELSE firstFuzzyHit(idx, norm(raw))

(***************************************************************************)
(* Score Selector.  A ScoreMap is the sequence Object.entries yields:      *)
(* entries [id, score] with distinct ids.  A score value is a record:      *)
(* kind "num" (a number that is not NaN, v in hundredths), kind "NaN", or  *)
(* kind "str" (a value whose typeof is not "number").                      *)
(***************************************************************************)
Num(v) == [kind |-> "num", v |-> v]
NaN == [kind |-> "NaN", v |-> 0]
Str(v) == [kind |-> "str", v |-> v]

\* typeof s === "number" && !Number.isNaN(s)
isNumber(s) == s.kind = "num"

Min(a, b) == IF a <= b THEN a ELSE b
Max(a, b) == IF a >= b THEN a ELSE b

\* Math.max(0, Math.min(1, x))
clamp01(x) == Max(0, Min(100, x))

\* A step that puts e before the elements it ties with.
RECURSIVE insertDescBeforeTies(_, _)
insertDescBeforeTies(sorted, e) ==
  IF sorted = <<>> THEN <<e>>
  ELSE IF Head(sorted).score.v <= e.score.v THEN <<e>> \o sorted
  ELSE <<Head(sorted)>> \o insertDescBeforeTies(Tail(sorted), e)

\* One step of a stable descending sort under the comparator b[1] - a[1]:
\* e goes after every element that does not compare below it.
RECURSIVE insertDesc(_, _)
insertDesc(sorted, e) ==
  IF sorted = <<>> THEN <<e>>
  ELSE IF Head(sorted).score.v < e.score.v THEN <<e>> \o sorted
  ELSE <<Head(sorted)>> \o insertDesc(Tail(sorted), e)

\* Array.prototype.sort((a, b) => b[1] - a[1]), which is stable.
RECURSIVE sortDesc(_)
sortDesc(xs) ==
  IF xs = <<>> THEN <<>>
  ELSE insertDesc(sortDesc(SubSeq(xs, 1, Len(xs) - 1)), xs[Len(xs)])

\* Array.prototype.slice(0, k) for a positive integer k.
slice(xs, k) == SubSeq(xs, 1, Min(k, Len(xs)))

\* A selector that reports the scores as given.
affectedUnclamped(segmentScores, topK, threshold) ==
  LET IsNum(e) == isNumber(e.score)
      Above(e) == e.score.v >= threshold
      pairs == SelectSeq(slice(sortDesc(SelectSeq(segmentScores, IsNum)), topK), Above)
  IN [i \in 1..Len(pairs) |-> [id |-> pairs[i].id, score |-> pairs[i].score.v]]

\* A selector that forgets the numeric filter.
affectedNoFilter(segmentScores, topK, threshold) ==
  LET Above(e) == e.score.v >= threshold
      pairs == SelectSeq(slice(sortDesc(segmentScores), topK), Above)
  IN [i \in 1..Len(pairs) |->
        [id |-> pairs[i].id, score |-> clamp01(pairs[i].score.v)]]

\* affected: filter the numbers, sort descending, slice(0, topK), filter by
\* the threshold, clamp.
affected(segmentScores, topK, threshold) ==
  LET IsNum(e) == isNumber(e.score)
      Above(e) == e.score.v >= threshold
      pairs == SelectSeq(slice(sortDesc(SelectSeq(segmentScores, IsNum)), topK), Above)
  IN [i \in 1..Len(pairs) |->
        [id |-> pairs[i].id, score |-> clamp01(pairs[i].score.v)]]

(***************************************************************************)
(* Mapping documents and the Target map.  The mapping state is             *)
(* NullMapping or a parsed document; a document may lack `segments`, and   *)
(* the value of a segment is a list of raw names or something that cannot  *)
(* be iterated (isList FALSE).                                             *)
(***************************************************************************)
NullMapping == [isNull |-> TRUE, hasSegments |-> FALSE, segments |-> <<>>]
Doc(segs) == [isNull |-> FALSE, hasSegments |-> TRUE, segments |-> segs]
Seg(id, items) == [id |-> id, isList |-> TRUE, items |-> items]
BadSeg(id) == [id |-> id, isList |-> FALSE, items |-> <<>>]

\* The document in the other shape, RegionId -> list of {target, side?}
\* records, with the region-to-name content of doc: a parsed object whose
\* keys are the RegionIds, so that it has no member `segments`.
shapeA(doc) ==
  [isNull |-> FALSE, hasSegments |-> FALSE, segments |-> <<>>,
   regions |-> [i \in 1..Len(doc.segments) |->
                  [id |-> doc.segments[i].id,
                   entries |-> [j \in 1..Len(doc.segments[i].items) |->
                                  [target |-> doc.segments[i].items[j]]]]]]

\* mapping.segments?.[id] ?? []
segmentEntries(mapping, id) ==
  IF mapping.hasSegments /\ \E i \in 1..Len(mapping.segments) : mapping.segments[i].id = id
  THEN mapping.segments[CHOOSE i \in 1..Len(mapping.segments) : mapping.segments[i].id = id]
  ELSE Seg(id, <<>>)

mapHas(map, name) == \E i \in 1..Len(map) : map[i].name = name

\* map.get(name) ?? 0
mapGetOr0(map, name) ==
  IF mapHas(map, name)
  THEN map[CHOOSE i \in 1..Len(map) : map[i].name = name].w
  ELSE 0

\* Map.prototype.set: an existing key keeps its place, a new key is appended.
mapSet(map, name, w) ==
  IF mapHas(map, name)
  THEN [i \in 1..Len(map) |-> IF map[i].name = name THEN [name |-> name, w |-> w] ELSE map[i]]
  ELSE Append(map, [name |-> name, w |-> w])

\* An update that overwrites the stored intensity.
targetPutOverwrite(map, raw, score) ==
  LET name == trim(raw)
  IN IF name = <<>> THEN map ELSE mapSet(map, name, score)

\* The body of the inner loop: trim, skip the empty name, keep the maximum.
targetPut(map, raw, score) ==
  LET name == trim(raw)
  IN IF name = <<>> THEN map
     ELSE mapSet(map, name, Max(score, mapGetOr0(map, name)))

RECURSIVE targetPutAll(_, _, _)
targetPutAll(map, items, score) ==
  IF items = <<>> THEN map
  ELSE targetPutAll(targetPut(map, Head(items), score), Tail(items), score)

\* The outer loop over the selected regions; thrown when a segment's value
\* cannot be iterated.
RECURSIVE targetLoop(_, _, _)
targetLoop(map, mapping, aff) ==
  IF aff = <<>> THEN [thrown |-> FALSE, map |-> map]
  ELSE LET entries == segmentEntries(mapping, Head(aff).id)
       IN IF ~entries.isList THEN [thrown |-> TRUE, map |-> map]
          ELSE targetLoop(targetPutAll(map, entries.items, Head(aff).score),
                          mapping, Tail(aff))

\* A Target map builder that does not test for the missing mapping.
targetsNoNullCheck(mapping, aff) ==
  IF mapping.isNull /\ aff # <<>> THEN [thrown |-> TRUE, map |-> <<>>]
  ELSE targetLoop(<<>>, mapping, aff)

\* targets: the empty map without a mapping, else the loop.
targets(mapping, aff) ==
  IF mapping.isNull THEN [thrown |-> FALSE, map |-> <<>>]
  ELSE targetLoop(<<>>, mapping, aff)

(***************************************************************************)
(* Scenes.  A scene is the sequence of its nodes in the order              *)
(* Object3D.traverse visits them (pre-order); a node has a name (possibly  *)
(* empty), a parent (NoNode for the root), the isMesh flag and the list of *)
(* its materials.  Material instances are numbered; two meshes naming the  *)
(* same number share one instance, as a loaded glTF does for meshes that   *)
(* reference one material.                                                 *)
(***************************************************************************)
Group(name, parent) == [name |-> name, parent |-> parent, isMesh |-> FALSE, mats |-> <<>>]
Mesh(name, parent, ms) == [name |-> name, parent |-> parent, isMesh |-> TRUE, mats |-> ms]

\* NodeA is a group of two unnamed meshes; NodeB and NodeC are meshes.
SceneFlat ==
  <<Group(sEmpty, NoNode), Group(NodeA, 1), Mesh(sEmpty, 2, <<1>>),
    Mesh(sEmpty, 2, <<2>>), Mesh(NodeB, 1, <<3>>), Mesh(NodeC, 1, <<4>>)>>

\* NodeC shares the material instance of NodeA.
SceneShared ==
  <<Group(sEmpty, NoNode), Mesh(NodeA, 1, <<1>>), Mesh(NodeB, 1, <<2>>),
    Mesh(NodeC, 1, <<1>>)>>

\* NodeB lies inside the group NodeA; one mesh carries two materials.
SceneNested ==
  <<Group(sEmpty, NoNode), Group(NodeA, 1), Mesh(NodeB, 2, <<1>>),
    Mesh(sEmpty, 2, <<2, 3>>), Mesh(NodeC, 1, <<4>>)>>

Scenes == {SceneFlat, SceneShared, SceneNested}

Materials(scene) ==
  UNION {{scene[n].mats[i] : i \in 1..Len(scene[n].mats)} : n \in 1..Len(scene)}

RECURSIVE isWithin(_, _, _)
\* n is a or a descendant of a.
isWithin(scene, n, a) ==
  IF n = a THEN TRUE
  ELSE IF n = NoNode THEN FALSE
  ELSE isWithin(scene, scene[n].parent, a)

\* The nodes node.traverse visits, in order.
subtree(scene, a) ==
  LET In(n) == isWithin(scene, n, a)
  IN SelectSeq([n \in 1..Len(scene) |-> n], In)

\* The index effect: idx.set(obj.name, obj) for every named node.
RECURSIVE buildIndex(_, _, _)
buildIndex(scene, n, idx) ==
  IF n > Len(scene) THEN idx
  ELSE IF scene[n].name = <<>> THEN buildIndex(scene, n + 1, idx)
  ELSE IF \E i \in 1..Len(idx) : idx[i].name = scene[n].name
       THEN buildIndex(scene, n + 1,
              [i \in 1..Len(idx) |->
                 IF idx[i].name = scene[n].name
                 THEN [name |-> idx[i].name, node |-> n] ELSE idx[i]])
  ELSE buildIndex(scene, n + 1, Append(idx, [name |-> scene[n].name, node |-> n]))

(***************************************************************************)
(* Pointer-select (the HeartMV variant with the info panel).  Its name     *)
(* helpers differ from the ones above in the dot suffixes they strip.      *)
(***************************************************************************)
\* NodeB is a group inside the group NodeA and holds an unnamed mesh.
SceneDeep ==
  <<Group(sEmpty, NoNode), Group(NodeA, 1), Group(NodeB, 2),
    Mesh(sEmpty, 3, <<1>>), Mesh(NodeC, 1, <<2>>)>>

\* base.replace(/\.(t|j|g)$/i, "")
stripDotSuffixG(s) ==
  IF /\ Len(s) >= 2
     /\ s[Len(s) - 1] = "."
     /\ toLowerCase(s[Len(s)]) \in {"t", "j", "g"}
  THEN SubSeq(s, 1, Len(s) - 2)
  ELSE s

variantsG(raw) ==
  LET base == trim(raw)
  IN dedupe(<<base,
              stripDotSuffixG(base),
              stripMeshAnnotation(base),
              stripMeshAnnotation(stripDotSuffixG(base))>>, {})

resolveTargetG(idx, raw) ==
  IF indexGet(idx, raw) # NoNode THEN indexGet(idx, raw)
  ELSE IF firstVariantHit(idx, variantsG(raw)) # NoNode
       THEN firstVariantHit(idx, variantsG(raw))
  ELSE firstFuzzyHit(idx, norm(raw))

\* add(meshName, sid): the set of the key gains sid.
hitAdd(hi, meshName, sid) ==
  LET key == norm(meshName)
  IN IF \E i \in 1..Len(hi) : hi[i].key = key
     THEN [i \in 1..Len(hi) |->
             IF hi[i].key = key /\ \A k \in 1..Len(hi[i].sids) : hi[i].sids[k] # sid
             THEN [key |-> key, sids |-> Append(hi[i].sids, sid)]
             ELSE hi[i]]
     ELSE Append(hi, [key |-> key, sids |-> <<sid>>])

RECURSIVE hitAddAll(_, _, _)
hitAddAll(hi, names, sid) ==
  IF names = <<>> THEN hi ELSE hitAddAll(hitAdd(hi, Head(names), sid), Tail(names), sid)

\* The names added for a resolved node: its named descendant meshes in
\* traversal order, then the node's own name.
hitNames(scene, node) ==
  LET NamedMesh(n) == scene[n].isMesh /\ scene[n].name # <<>>
      ms == SelectSeq(subtree(scene, node), NamedMesh)
  IN [i \in 1..Len(ms) |-> scene[ms[i]].name]
       \o (IF scene[node].name # <<>> THEN <<scene[node].name>> ELSE <<>>)

RECURSIVE hitItems(_, _, _, _, _)
hitItems(hi, scene, idx, items, sid) ==
  IF items = <<>> THEN hi
  ELSE LET node == resolveTargetG(idx, Head(items))
       IN hitItems(IF node = NoNode THEN hi ELSE hitAddAll(hi, hitNames(scene, node), sid),
                   scene, idx, Tail(items), sid)

RECURSIVE hitSegments(_, _, _, _)
hitSegments(hi, scene, idx, segs) ==
  IF segs = <<>> THEN hi
  ELSE hitSegments(hitItems(hi, scene, idx, Head(segs).items, Head(segs).id),
                   scene, idx, Tail(segs))

\* The hit index effect: normalized name -> the RegionIds that include it.
buildHitIndex(scene, idx, mapping) ==
  IF mapping.isNull \/ idx = <<>> THEN <<>>
  ELSE hitSegments(<<>>, scene, idx, IF mapping.hasSegments THEN mapping.segments ELSE <<>>)

\* hitIndex.get(key); no set is the empty list.
hitGet(hi, key) ==
  IF \E i \in 1..Len(hi) : hi[i].key = key
  THEN hi[CHOOSE i \in 1..Len(hi) : hi[i].key = key].sids
  ELSE <<>>

\* while (cur && !cur.name) cur = cur.parent
RECURSIVE climb(_, _)
climb(scene, cur) ==
  IF cur = NoNode THEN NoNode
  ELSE IF scene[cur].name # <<>> THEN cur
  ELSE climb(scene, scene[cur].parent)

\* segmentScores[sid] ?? 0, before Number(): the value, or 0 when missing.
scoreOf(scores, sid) ==
  IF \E i \in 1..Len(scores) : scores[i].id = sid
  THEN scores[CHOOSE i \in 1..Len(scores) : scores[i].id = sid].score
  ELSE [kind |-> "num", v |-> 0]

\* The loop over the sids: a strictly greater score replaces the best one;
\* NaN is greater than nothing.
RECURSIVE bestOf(_, _, _)
bestOf(sids, scores, best) ==
  IF sids = <<>> THEN best
  ELSE LET sc == scoreOf(scores, Head(sids))
       IN bestOf(Tail(sids), scores,
                 IF sc.kind # "NaN" /\ sc.v > best.score
                 THEN [found |-> TRUE, sid |-> Head(sids), score |-> sc.v]
                 ELSE best)

NoSelection == [kind |-> "null"]
Unmapped(name) == [kind |-> "node", nodeName |-> name]
Selected(name, best) ==
  [kind |-> "segment", nodeName |-> name, found |-> best.found, segmentId |-> best.sid,
   score |-> best.score]

\* handlePointerDown on the object obj of the scene.
handlePointerDown(scene, hitIndex, scores, obj) ==
  LET cur == climb(scene, obj)
      name == trim(IF cur # NoNode THEN scene[cur].name ELSE scene[obj].name)
      sids == hitGet(hitIndex, norm(name))
  IN IF name = <<>> THEN NoSelection
     ELSE IF sids # <<>>
     THEN Selected(name, bestOf(sids, scores, [found |-> FALSE, sid |-> "", score |-> -1]))
     ELSE Unmapped(name)

(***************************************************************************)
(* Materials and the highlight pass.                                       *)
(***************************************************************************)
White == <<100, 100, 100>>
Black == <<0, 0, 0>>
Warm == <<100, 25, 25>>

\* A material as the asset loader delivers it.
Authored == [transparent |-> FALSE, opacity |-> 100, color |-> White, emissive |-> Black]

\* A fade that scales the current opacity instead of setting it.
fadeMatScaled(m, opacity) ==
  [transparent |-> TRUE, opacity |-> (m.opacity * opacity) \div 100,
   color |-> White, emissive |-> Black]

\* fadeMat
fadeMat(m, opacity) ==
  [transparent |-> TRUE, opacity |-> opacity, color |-> White, emissive |-> Black]

\* A highlight that uses the intensity as given.
lightMatUnclamped(m, intensity) ==
  [transparent |-> FALSE, opacity |-> 100, color |-> Warm,
   emissive |-> <<6 * intensity, intensity, intensity>>]

\* lightMat
lightMat(m, intensity) ==
  LET t == clamp01(intensity)
  IN [transparent |-> FALSE, opacity |-> 100, color |-> Warm,
      emissive |-> <<6 * t, t, t>>]

FadeCall(mat) == [op |-> "fade", mat |-> mat, w |-> 0]
LightCall(mat, w) == [op |-> "light", mat |-> mat, w |-> w]

RECURSIVE flatten(_)
flatten(xss) == IF xss = <<>> THEN <<>> ELSE Head(xss) \o flatten(Tail(xss))

\* The materials node.traverse visits, mesh by mesh, over the nodes ns.
meshMats(scene, ns) ==
  flatten([k \in 1..Len(ns) |->
             IF scene[ns[k]].isMesh THEN scene[ns[k]].mats ELSE <<>>])

\* 1) fade all meshes
fadeCalls(scene) ==
  LET ms == meshMats(scene, [n \in 1..Len(scene) |-> n])
  IN [i \in 1..Len(ms) |-> FadeCall(ms[i])]

\* highlightNode
highlightCalls(scene, node, w) ==
  LET ms == meshMats(scene, subtree(scene, node))
  IN [i \in 1..Len(ms) |-> LightCall(ms[i], w)]

\* A target loop that ends at the first name that does not resolve.
RECURSIVE lightCallsUntilMiss(_, _, _)
lightCallsUntilMiss(scene, idx, tmap) ==
  IF tmap = <<>> THEN <<>>
  ELSE LET node == resolveTarget(idx, Head(tmap).name)
       IN IF node = NoNode THEN <<>>
          ELSE highlightCalls(scene, node, Head(tmap).w)
                 \o lightCallsUntilMiss(scene, idx, Tail(tmap))

\* 2) highlight resolved targets, in the iteration order of the Target map
lightCalls(scene, idx, tmap) ==
  flatten([k \in 1..Len(tmap) |->
             LET node == resolveTarget(idx, tmap[k].name)
             IN IF node # NoNode THEN highlightCalls(scene, node, tmap[k].w) ELSE <<>>])

\* const misses: the names that did not resolve.
passMisses(idx, tmap) ==
  LET Miss(e) == resolveTarget(idx, e.name) = NoNode
      ms == SelectSeq(tmap, Miss)
  IN [k \in 1..Len(ms) |-> ms[k].name]

\* The console.warn calls of a pass: one, when misses is not empty, with
\* misses.length and misses.slice(0, 20).
passWarns(misses) ==
  IF Len(misses) > 0
  THEN <<[count |-> Len(misses), names |-> slice(misses, 20)]>>
  ELSE <<>>

\* A pass that highlights before it fades.
passCallsLightFirst(scene, idx, tmap) == lightCalls(scene, idx, tmap) \o fadeCalls(scene)

\* The mutation calls of one pass, in the order the effect issues them.
passCalls(scene, idx, tmap) == fadeCalls(scene) \o lightCalls(scene, idx, tmap)

applyCall(ms, c, opacity) ==
  [ms EXCEPT ![c.mat] = IF c.op = "fade" THEN fadeMat(@, opacity) ELSE lightMat(@, c.w)]

RECURSIVE applyCalls(_, _, _)
applyCalls(ms, calls, opacity) ==
  IF calls = <<>> THEN ms
  ELSE applyCalls(applyCall(ms, Head(calls), opacity), Tail(calls), opacity)

(***************************************************************************)
(* The inputs the component is exercised with.                             *)
(***************************************************************************)
Entry(id, score) == [id |-> id, score |-> score]

ScoreMaps ==
  {<<>>,
   <<Entry("1", Num(80)), Entry("2", Num(30))>>,
   <<Entry("1", Num(40)), Entry("2", Num(90))>>,
   <<Entry("1", NaN), Entry("2", Num(150))>>}

TopKs == {1, 8}
Thresholds == {25, 50}
Opacities == {15, 40}
MappingUrls == {"/static/heart/mapping.json", "/other/mapping.json"}

DocAB == Doc(<<Seg("1", <<NodeA>>), Seg("2", <<NodeB>>)>>)
DocFanIn == Doc(<<Seg("1", <<NodeC, sBlank>>), Seg("2", <<NodeA_pad, NodeC>>)>>)
DocAlias == Doc(<<Seg("1", <<NodeA_t>>), Seg("2", <<NodeA>>)>>)
DocMiss == Doc(<<Seg("1", <<sMissing, NodeB>>)>>)
DocBad == Doc(<<BadSeg("1"), Seg("2", <<NodeB>>)>>)
Docs == {DocAB, DocFanIn, DocAlias, DocMiss, DocBad}

\* The documents a request for the URL u may be answered with.
DocsAt(u) ==
  IF u = "/static/heart/mapping.json" THEN {DocAB, DocFanIn, DocBad}
  ELSE {DocAlias, DocMiss}

\* The scenes and mappings of the viewer with click-to-inspect.
DocOnlyA == Doc(<<Seg("1", <<NodeA>>)>>)
PickScenes == {SceneFlat, SceneNested, SceneDeep}
PickDocs == {NullMapping, DocAB, DocAlias, DocOnlyA}

(***************************************************************************)
(* State.                                                                  *)
(*   segmentScores, topK, threshold, opacity, mappingUrl: the props;       *)
(*   scene, loaded: the glTF scene and whether useGLTF has delivered it    *)
(*     (HeartScene is suspended, and runs no effect, until then);          *)
(*   mapping: the mapping state of HeartMV;                                *)
(*   fetches: the mapping requests in flight, each with its `on` flag;     *)
(*   loadFailed: console.error has reported a failed mapping load;         *)
(*   nameIndex: the nameIndex state of HeartScene as last rendered;        *)
(*   indexPending: setNameIndex was called and its render is still due;    *)
(*   mats: the state of every material instance of the scene;              *)
(*   crashed: a render has thrown;                                         *)
(*   lastPass: what the last run of the highlight effect did;              *)
(*   call, ret: the arguments and the result of a function applied on its  *)
(*     own (specification FnSpec);                                         *)
(*   raf, frames: the handle `raf` of BrainMV's schedule and the frame     *)
(*     callbacks the browser holds;                                        *)
(*   selected, hitIndex: the selection the click handler reported and the  *)
(*     hit index of the viewer with click-to-inspect (PickSpec).           *)
(*                                                                         *)
(* React flushes the effects of one render before it renders again, so a   *)
(* state or prop change and the effects it makes due are one step.         *)
(***************************************************************************)
VARIABLES segmentScores, topK, threshold, opacity, mappingUrl, scene, loaded,
          mapping, fetches, loadFailed, nameIndex, indexPending, mats, crashed,
          lastPass, unmounted, call, ret, selected, hitIndex,
          brainMapping, mvRef, model, ready, allNodes, brightNodes,
          pendingSingle, pendingMany, raf, frames, nodeOpacity, loads, result,
          busy, received, applied

props == <<segmentScores, topK, threshold, opacity>>
sceneVars == <<nameIndex, indexPending, mats, crashed, lastPass>>
viewVars == <<segmentScores, topK, threshold, opacity, mappingUrl, scene, loaded,
              mapping, fetches, loadFailed, nameIndex, indexPending, mats, crashed,
              lastPass, unmounted>>
pickVars == <<selected, hitIndex>>
fnVars == <<call, ret, pickVars>>
brainVars == <<brainMapping, mvRef, model, ready, allNodes, brightNodes,
               pendingSingle, pendingMany, raf, frames, nodeOpacity, loads, result,
               busy, received, applied>>
vars == <<viewVars, fnVars, brainVars>>

NoPass ==
  [ran |-> FALSE, repeat |-> FALSE, calls |-> <<>>, tmap |-> <<>>, index |-> <<>>,
   warns |-> <<>>, withMapping |-> FALSE, afterLoadFailed |-> FALSE]
NoCall == [fn |-> "none"]
NoRet == [done |-> FALSE]

(***************************************************************************)
(* BrainMV and the page that mounts it.  The nodes of the brain asset are  *)
(* known by name; an opacity is in hundredths.                             *)
(***************************************************************************)
BrainNodes == <<"Hippocampus", "Amygdala.L", "Thalamus">>
BrainNodeSet == {BrainNodes[i] : i \in 1..Len(BrainNodes)}
dimOpacity == 12
NoDetail == [kind |-> "null"]
NoRaf == [kind |-> "null"]
NoResult == [kind |-> "null"]

\* The state of the brain viewer while the page shows the heart: BrainMV is
\* not mounted.
BrainIdle ==
  /\ brainMapping = <<>>
  /\ mvRef = FALSE /\ model = FALSE /\ ready = FALSE
  /\ allNodes = <<>> /\ brightNodes = <<>>
  /\ pendingSingle = NoDetail /\ pendingMany = NoDetail /\ raf = NoRaf /\ frames = {}
  /\ nodeOpacity = [n \in BrainNodeSet |-> 100]
  /\ loads = 0 /\ result = NoResult /\ busy = FALSE
  /\ received = <<>> /\ applied = <<>>
  /\ selected = NoSelection /\ hitIndex = <<>>

\* The viewer after HeartMV has mounted: the mapping request is in flight,
\* the asset is still loading.
ViewInit ==
  /\ segmentScores \in ScoreMaps
  /\ topK \in TopKs
  /\ threshold \in Thresholds
  /\ opacity \in Opacities
  /\ mappingUrl = "/static/heart/mapping.json"
  /\ scene \in Scenes
  /\ loaded = FALSE
  /\ mapping = NullMapping
  /\ fetches = {[on |-> TRUE, url |-> mappingUrl]}
  /\ loadFailed = FALSE
  /\ nameIndex = <<>>
  /\ indexPending = FALSE
  /\ mats = [m \in Materials(scene) |-> Authored]
  /\ crashed = FALSE
  /\ lastPass = NoPass
  /\ unmounted = FALSE

Init == ViewInit /\ call = NoCall /\ ret = NoRet /\ BrainIdle

\* The index holds nodes of a scene other than sc.
staleIndex(sc, idx) == idx # <<>> /\ idx # buildIndex(sc, 1, <<>>)

\* One render and commit of HeartScene with the props s, k, t, o and the
\* mapping m.  The memos (affected, targets) are computed in the render; a
\* throw there takes the component down.  Then the effects run: the index
\* effect when the scene is new (its setNameIndex shows in the next render)
\* and the highlight effect, which sees the nameIndex of this render.
RenderCommit(s, k, t, o, m, sceneIsNew, sameInputs) ==
  LET tg == targets(m, affected(s, k, t))
      idx == IF indexPending THEN buildIndex(scene, 1, <<>>) ELSE nameIndex
      \* The nodes of an index built from another scene are objects of that
      \* scene: highlightNode mutates their materials, not those of `scene`.
      calls == IF staleIndex(scene, idx) THEN fadeCalls(scene)
               ELSE passCalls(scene, idx, tg.map)
  IN IF tg.thrown
     THEN /\ crashed' = TRUE
          /\ UNCHANGED <<nameIndex, indexPending, mats, lastPass>>
     ELSE /\ nameIndex' = idx
          /\ indexPending' = sceneIsNew
          /\ mats' = applyCalls(mats, calls, o)
          /\ lastPass' = [ran |-> TRUE,
                          repeat |-> lastPass.ran /\ sameInputs /\ ~indexPending,
                          calls |-> calls,
                          tmap |-> tg.map,
                          index |-> idx,
                          warns |-> passWarns(passMisses(idx, tg.map)),
                          withMapping |-> ~m.isNull,
                          afterLoadFailed |-> loadFailed]
          /\ UNCHANGED crashed

\* useGLTF resolves: HeartScene mounts and runs both of its effects.
AssetLoaded ==
  /\ ~loaded /\ ~crashed /\ ~unmounted
  /\ loaded' = TRUE
  /\ RenderCommit(segmentScores, topK, threshold, opacity, mapping, TRUE, FALSE)
  /\ UNCHANGED <<props, mappingUrl, scene, mapping, fetches, loadFailed, unmounted, fnVars, brainVars>>

\* The render that setNameIndex asked for.
IndexRerender ==
  /\ loaded /\ ~crashed /\ indexPending /\ ~unmounted
  /\ RenderCommit(segmentScores, topK, threshold, opacity, mapping, FALSE, FALSE)
  /\ UNCHANGED <<props, mappingUrl, scene, loaded, mapping, fetches, loadFailed, unmounted, fnVars, brainVars>>

\* The parent passes a new value for one of the props.
SetProps ==
  /\ ~crashed /\ ~unmounted
  /\ \E s \in ScoreMaps, k \in TopKs, t \in Thresholds, o \in Opacities :
       /\ <<s, k, t, o>> # props
       /\ \/ (k = topK /\ t = threshold /\ o = opacity)
          \/ (s = segmentScores /\ t = threshold /\ o = opacity)
          \/ (s = segmentScores /\ k = topK /\ o = opacity)
          \/ (s = segmentScores /\ k = topK /\ t = threshold)
       /\ segmentScores' = s /\ topK' = k /\ threshold' = t /\ opacity' = o
       /\ IF loaded THEN RenderCommit(s, k, t, o, mapping, FALSE, FALSE)
          ELSE UNCHANGED sceneVars
  /\ UNCHANGED <<mappingUrl, scene, loaded, mapping, fetches, loadFailed, unmounted, fnVars, brainVars>>

\* The parent renders again with an equal but fresh segmentScores object
\* (`result?.segment_scores ?? {}`): the memos are recomputed and the
\* highlight effect runs again with the same inputs.
Rerender ==
  /\ ~crashed /\ loaded /\ ~unmounted
  /\ RenderCommit(segmentScores, topK, threshold, opacity, mapping, FALSE, TRUE)
  /\ UNCHANGED <<props, mappingUrl, scene, loaded, mapping, fetches, loadFailed, unmounted, fnVars, brainVars>>

\* mappingUrl changes: the cleanup clears the flag of the running request
\* and the effect starts a new one.
ChangeUrl ==
  /\ ~crashed /\ ~unmounted
  /\ \E u \in MappingUrls \ {mappingUrl} :
       /\ mappingUrl' = u
       /\ fetches' = {[f EXCEPT !.on = FALSE] : f \in fetches} \cup {[on |-> TRUE, url |-> u]}
  /\ UNCHANGED <<props, scene, loaded, mapping, loadFailed, sceneVars, unmounted, fnVars, brainVars>>

\* A response whose setMapping is not followed by a render.
FetchOkNoRender ==
  /\ ~crashed
  /\ \E f \in fetches : \E m \in DocsAt(f.url) :
       /\ fetches' = fetches \ {f}
       /\ IF f.on THEN mapping' = m ELSE UNCHANGED mapping
  /\ UNCHANGED <<props, mappingUrl, scene, loaded, loadFailed, sceneVars, unmounted,
                 fnVars, brainVars>>

\* fetch and r.json() succeed: setMapping(m) unless the flag was cleared.
FetchOk ==
  /\ ~crashed
  /\ \E f \in fetches : \E m \in DocsAt(f.url) :
       /\ fetches' = fetches \ {f}
       /\ IF f.on
          THEN /\ mapping' = m
               /\ IF loaded
                  THEN RenderCommit(segmentScores, topK, threshold, opacity, m, FALSE, FALSE)
                  ELSE UNCHANGED sceneVars
          ELSE UNCHANGED <<mapping, sceneVars>>
  /\ UNCHANGED <<props, mappingUrl, scene, loaded, loadFailed, unmounted, fnVars, brainVars>>

\* fetch rejects or r.json() throws: the catch block logs the error.
FetchFail ==
  /\ ~crashed
  /\ \E f \in fetches : fetches' = fetches \ {f}
  /\ loadFailed' = TRUE
  /\ UNCHANGED <<props, mappingUrl, scene, loaded, mapping, sceneVars, unmounted, fnVars, brainVars>>

\* An unmount whose cleanup leaves the flag of the running request set.
UnmountKeepsFlag ==
  /\ ~unmounted
  /\ unmounted' = TRUE
  /\ UNCHANGED <<props, mappingUrl, scene, loaded, mapping, fetches, loadFailed,
                 sceneVars, fnVars, brainVars>>

\* The page switches to another organ: HeartMV unmounts and the cleanup of
\* the fetch effect clears the flag of the running request.
Unmount ==
  /\ ~unmounted
  /\ unmounted' = TRUE
  /\ fetches' = {[f EXCEPT !.on = FALSE] : f \in fetches}
  /\ UNCHANGED <<props, mappingUrl, scene, loaded, mapping, loadFailed, sceneVars,
                 fnVars, brainVars>>

Next ==
  \/ Unmount
  \/ AssetLoaded
  \/ IndexRerender
  \/ SetProps
  \/ Rerender
  \/ ChangeUrl
  \/ FetchOk
  \/ FetchFail

Spec == Init /\ [][Next]_vars

(***************************************************************************)
(* Specification AssetSpec: the viewer while the parent changes the src    *)
(* prop.  Each asset is loaded at most once, in the order of Assets.       *)
(***************************************************************************)
Assets == <<SceneFlat, SceneShared, SceneNested>>
assetOf(sc) == CHOOSE i \in 1..Len(Assets) : Assets[i] = sc

\* src changes: useGLTF(src) suspends HeartScene until the new asset is
\* there.  The state of the suspended component, nameIndex included, is
\* kept; the materials of the new scene are as authored.
ChangeSrc ==
  /\ ~crashed /\ ~unmounted
  /\ \E i \in 1..Len(Assets) :
       /\ i > assetOf(scene)
       /\ scene' = Assets[i]
       /\ mats' = [m \in Materials(Assets[i]) |-> Authored]
  /\ loaded' = FALSE
  /\ lastPass' = NoPass
  /\ UNCHANGED <<props, mappingUrl, mapping, fetches, loadFailed, nameIndex, indexPending,
                 crashed, unmounted, fnVars, brainVars>>

AssetNext ==
  \/ AssetLoaded
  \/ IndexRerender
  \/ SetProps
  \/ FetchOk
  \/ ChangeSrc

AssetSpec == Init /\ [][AssetNext]_vars

(***************************************************************************)
(* Specification PickSpec: the viewer with click-to-inspect, its asset     *)
(* loaded and indexed, its mapping request in flight.                      *)
(***************************************************************************)
lightCallsG(sc, idx, tmap) ==
  flatten([k \in 1..Len(tmap) |->
             LET node == resolveTargetG(idx, tmap[k].name)
             IN IF node # NoNode THEN highlightCalls(sc, node, tmap[k].w) ELSE <<>>])

\* The materials after the highlight effect: fade all, then highlight the
\* targets.
pickPass(sc, idx, m, s, k, t, o) ==
  applyCalls([x \in Materials(sc) |-> Authored],
             fadeCalls(sc) \o lightCallsG(sc, idx, targets(m, affected(s, k, t)).map), o)

PickInit ==
  /\ segmentScores \in ScoreMaps /\ topK = 8 /\ threshold = 25 /\ opacity = 15
  /\ mappingUrl = "/static/heart/mapping.json"
  /\ scene \in PickScenes /\ loaded = TRUE /\ mapping = NullMapping
  /\ fetches = {[on |-> TRUE, url |-> mappingUrl]} /\ loadFailed = FALSE
  /\ nameIndex = buildIndex(scene, 1, <<>>) /\ indexPending = FALSE
  /\ mats = pickPass(scene, nameIndex, mapping, segmentScores, topK, threshold, opacity)
  /\ crashed = FALSE /\ lastPass = NoPass /\ unmounted = FALSE
  /\ call = NoCall /\ ret = NoRet
  /\ BrainIdle

\* The mapping arrives: the hit index effect and the highlight effect run.
PickFetchOk ==
  /\ \E f \in fetches, m \in PickDocs \ {NullMapping} :
       /\ f.on
       /\ fetches' = fetches \ {f}
       /\ mapping' = m
       /\ hitIndex' = buildHitIndex(scene, nameIndex, m)
       /\ mats' = pickPass(scene, nameIndex, m, segmentScores, topK, threshold, opacity)
  /\ UNCHANGED <<props, mappingUrl, scene, loaded, loadFailed, nameIndex, indexPending,
                 crashed, lastPass, unmounted, call, ret, selected, brainVars>>

\* The parent passes new scores: the highlight effect runs.
PickSetScores ==
  /\ \E s \in ScoreMaps \ {segmentScores} :
       /\ segmentScores' = s
       /\ mats' = pickPass(scene, nameIndex, mapping, s, topK, threshold, opacity)
  /\ UNCHANGED <<topK, threshold, opacity, mappingUrl, scene, loaded, mapping, fetches,
                 loadFailed, nameIndex, indexPending, crashed, lastPass, unmounted,
                 fnVars, brainVars>>

\* A click handler that also highlights what it picked.
PointerDownRepaints ==
  /\ \E obj \in {n \in 1..Len(scene) : scene[n].isMesh} :
       /\ selected' = handlePointerDown(scene, hitIndex, segmentScores, obj)
       /\ mats' = applyCalls(mats, highlightCalls(scene, obj, 100), opacity)
  /\ UNCHANGED <<props, mappingUrl, scene, loaded, mapping, fetches, loadFailed,
                 nameIndex, indexPending, crashed, lastPass, unmounted,
                 call, ret, hitIndex, brainVars>>

\* A pointer-down on a mesh: handlePointerDown reports through onSelect,
\* which is setSelected of the wrapper.  The render that follows passes
\* HeartScene the props it had, so none of its memos or effects runs.
PointerDown ==
  /\ \E obj \in {n \in 1..Len(scene) : scene[n].isMesh} :
       selected' = handlePointerDown(scene, hitIndex, segmentScores, obj)
  /\ UNCHANGED <<viewVars, call, ret, hitIndex, brainVars>>

PickNext ==
  \/ PickFetchOk
  \/ PickSetScores
  \/ PointerDown

PickSpec == PickInit /\ [][PickNext]_vars

(***************************************************************************)
(* Specification BrainSpec: the page shows the brain; BrainMV is mounted   *)
(* and its asset is loading.                                               *)
(***************************************************************************)
MaxRequests == 3
MaxLoads == 2

\* The mapping prop: RegionId -> list of {target, side?} records.
BrainTarget(t) == [target |-> t]
BrainMappingAB ==
  <<[id |-> 1, entries |-> <<BrainTarget("Hippocampus")>>],
    [id |-> 2, entries |-> <<BrainTarget("Amygdala.L"), BrainTarget("Missing")>>]>>
BrainMappings == {<<>>, BrainMappingAB}

\* mapping[id] || []
brainEntries(id) ==
  IF \E i \in 1..Len(brainMapping) : brainMapping[i].id = id
  THEN brainMapping[CHOOSE i \in 1..Len(brainMapping) : brainMapping[i].id = id].entries
  ELSE <<>>

\* The labels on which /\bleft\b/i, /\.l\b/i, /\bright\b/i or /\.r\b/i
\* test true, with what label.replace(/\b(left|right)\b/gi, "").trim() gives.
SideBase == ("Amygdala left" :> "Amygdala")

\* The eight names pushed for a label with a side word.
sideVariants(label) ==
  IF label \in DOMAIN SideBase
  THEN IF SideBase[label] = "Amygdala"
       THEN <<"Amygdala.l", "Amygdala.L", "Amygdala (Left)", "Amygdala (left)",
              "Amygdala.r", "Amygdala.R", "Amygdala (Right)", "Amygdala (right)">>
       ELSE <<>>
  ELSE <<>>

\* labelsToNodeNames
labelsToNodeNames(ids, namesIn) ==
  LET fromIds == flatten([k \in 1..Len(ids) |->
                    [j \in 1..Len(brainEntries(ids[k])) |-> brainEntries(ids[k])[j].target]])
      fromNames == flatten([k \in 1..Len(namesIn) |-> <<namesIn[k]>> \o sideVariants(namesIn[k])])
  IN dedupe(fromIds \o fromNames, {})

\* getNode: model.getNodeByName(name) ?? null, through the ref.
getNode(name) == IF mvRef /\ model /\ name \in BrainNodeSet THEN name ELSE "null"

SingleDetail(req, id, name) ==
  [kind |-> "single", req |-> req, label_id |-> id, label_name |-> name]
ManyDetail(req, ids, names, exclusive) ==
  [kind |-> "many", req |-> req, label_ids |-> ids, label_names |-> names,
   exclusive |-> exclusive]

SingleInputs == {<<1, "Thalamus">>, <<2, "Amygdala left">>}
ManyInputs == {<<(<<1>>), (<<"Unknown">>), TRUE>>, <<(<<2>>), (<<"Thalamus">>), FALSE>>}

\* schedule(fn): the frame callback asked for before is cancelled.
Scheduled(names, exclusive, req) ==
  [kind |-> "raf", names |-> names, exclusive |-> exclusive, req |-> req]

seqRange(xs) == {xs[i] : i \in 1..Len(xs)}

\* captureAllNodes: model.traverse pushes every node of the scene.
captureAllNodes == IF mvRef /\ model THEN BrainNodes ELSE <<>>

\* dimAll on the viewer state st = [allNodes, brightNodes, nodeOpacity].
dimAll(st) ==
  IF ~(mvRef /\ model) THEN st
  ELSE LET all == IF st.allNodes = <<>> THEN captureAllNodes ELSE st.allNodes
       IN [st EXCEPT !.allNodes = all,
                     !.nodeOpacity = [n \in BrainNodeSet |->
                        IF n \in seqRange(all) THEN dimOpacity ELSE st.nodeOpacity[n]]]

\* restoreAll
restoreAll(st) ==
  IF ~(mvRef /\ model) THEN st
  ELSE LET all == IF st.allNodes = <<>> THEN captureAllNodes ELSE st.allNodes
       IN [st EXCEPT !.allNodes = all,
                     !.nodeOpacity = [n \in BrainNodeSet |->
                        IF n \in seqRange(all) THEN 100 ELSE st.nodeOpacity[n]]]

\* The names of the nodes getNode finds, in the order of names.
foundNodes(names) ==
  LET Found(nm) == getNode(nm) # "null" IN SelectSeq(names, Found)

\* highlightByNames on the viewer state st; nothing happens without the model.
highlightByNames(st, names, exclusive) ==
  IF ~(mvRef /\ model) THEN st
  ELSE LET s1 == IF exclusive THEN dimAll(st) ELSE st
           found == foundNodes(names)
           op2 == [n \in BrainNodeSet |->
                     IF n \in seqRange(s1.brightNodes) THEN 100 ELSE s1.nodeOpacity[n]]
           op3 == [n \in BrainNodeSet |-> IF n \in seqRange(found) THEN 100 ELSE op2[n]]
           all == IF ~exclusive /\ s1.allNodes = <<>> THEN captureAllNodes ELSE s1.allNodes
       IN [allNodes |-> all, brightNodes |-> found, nodeOpacity |-> op3]

brainState == [allNodes |-> allNodes, brightNodes |-> brightNodes, nodeOpacity |-> nodeOpacity]

setBrainState(st) ==
  /\ allNodes' = st.allNodes
  /\ brightNodes' = st.brightNodes
  /\ nodeOpacity' = st.nodeOpacity

\* HeartMV is not mounted while the page shows the brain.
HeartIdle ==
  /\ segmentScores = <<>> /\ topK = 8 /\ threshold = 25 /\ opacity = 15
  /\ mappingUrl = "/static/heart/mapping.json"
  /\ scene = SceneFlat /\ loaded = FALSE /\ mapping = NullMapping
  /\ fetches = {} /\ loadFailed = FALSE /\ nameIndex = <<>> /\ indexPending = FALSE
  /\ mats = [m \in Materials(scene) |-> Authored]
  /\ crashed = FALSE /\ lastPass = NoPass /\ unmounted = TRUE
  /\ call = NoCall /\ ret = NoRet

BrainInit ==
  /\ HeartIdle
  /\ brainMapping \in BrainMappings
  /\ mvRef = TRUE /\ model = FALSE /\ ready = FALSE
  /\ allNodes = <<>> /\ brightNodes = <<>>
  /\ pendingSingle = NoDetail /\ pendingMany = NoDetail /\ raf = NoRaf /\ frames = {}
  /\ nodeOpacity = [n \in BrainNodeSet |-> 100]
  /\ loads = 0 /\ result = NoResult /\ busy = FALSE
  /\ received = <<>> /\ applied = <<>>
  /\ selected = NoSelection /\ hitIndex = <<>>

haveApi == mvRef /\ model

\* A schedule that requests a frame without cancelling the pending one.
scheduleNoCancel(cb) ==
  /\ frames' = frames \cup {cb}
  /\ raf' = cb

\* schedule(fn): cancelAnimationFrame(raf) when raf is set, then
\* raf = requestAnimationFrame(...).  frames is the browser's list of
\* requested frame callbacks; raf names the one requested last.
schedule(cb) ==
  /\ frames' = (IF raf # NoRaf THEN frames \ {raf} ELSE frames) \cup {cb}
  /\ raf' = cb

\* The highlight-roi listener.
HighlightRoi ==
  /\ mvRef /\ Len(received) < MaxRequests
  /\ \E in \in SingleInputs :
       LET detail == SingleDetail(Len(received) + 1, in[1], in[2])
       IN /\ received' = Append(received, [detail |-> detail, queued |-> ~haveApi])
          /\ IF ~haveApi
             THEN pendingSingle' = detail /\ UNCHANGED <<raf, frames>>
             ELSE /\ schedule(Scheduled(labelsToNodeNames(<<detail.label_id>>,
                                                          <<detail.label_name>>),
                                        FALSE, detail.req))
                  /\ UNCHANGED pendingSingle
  /\ UNCHANGED <<viewVars, fnVars, brainMapping, mvRef, model, ready, allNodes,
                 brightNodes, pendingMany, nodeOpacity, loads, result, busy, applied>>

\* The highlight-rois listener.
HighlightRois ==
  /\ mvRef /\ Len(received) < MaxRequests
  /\ \E in \in ManyInputs :
       LET detail == ManyDetail(Len(received) + 1, in[1], in[2], in[3])
       IN /\ received' = Append(received, [detail |-> detail, queued |-> ~haveApi])
          /\ IF ~haveApi
             THEN pendingMany' = detail /\ UNCHANGED <<raf, frames>>
             ELSE /\ schedule(Scheduled(labelsToNodeNames(detail.label_ids, detail.label_names),
                                        detail.exclusive, detail.req))
                  /\ UNCHANGED pendingMany
  /\ UNCHANGED <<viewVars, fnVars, brainMapping, mvRef, model, ready, allNodes,
                 brightNodes, pendingSingle, nodeOpacity, loads, result, busy, applied>>

\* The load event of the model-viewer element; the node API of the model
\* is there from the first load on.
OnLoad ==
  /\ mvRef /\ loads < MaxLoads
  /\ loads' = loads + 1
  /\ model' = TRUE
  /\ ready' = TRUE
  /\ allNodes' = BrainNodes
  /\ IF pendingMany # NoDetail
     THEN /\ pendingMany' = NoDetail
          /\ schedule(Scheduled(labelsToNodeNames(pendingMany.label_ids,
                                                  pendingMany.label_names),
                                pendingMany.exclusive, pendingMany.req))
          /\ UNCHANGED pendingSingle
     ELSE IF pendingSingle # NoDetail
     THEN /\ pendingSingle' = NoDetail
          /\ schedule(Scheduled(labelsToNodeNames(<<pendingSingle.label_id>>,
                                                  <<pendingSingle.label_name>>),
                                FALSE, pendingSingle.req))
          /\ UNCHANGED pendingMany
     ELSE UNCHANGED <<pendingSingle, pendingMany, raf, frames>>
  /\ UNCHANGED <<viewVars, fnVars, brainMapping, mvRef, brightNodes, nodeOpacity,
                 result, busy, received, applied>>

\* The animation frame: the scheduled callback runs highlightByNames.
RafFire ==
  /\ \E cb \in frames :
       /\ frames' = frames \ {cb}
       /\ raf' = NoRaf
       /\ setBrainState(highlightByNames(brainState, cb.names, cb.exclusive))
       /\ applied' = IF mvRef /\ model
                     THEN Append(applied, [req |-> cb.req, found |-> foundNodes(cb.names),
                                           exclusive |-> cb.exclusive])
                     ELSE applied
  /\ UNCHANGED <<viewVars, fnVars, brainMapping, mvRef, model, ready, pendingSingle,
                 pendingMany, loads, result, busy, received>>

\* The "Clear highlight" button.
ClearAll ==
  /\ mvRef
  /\ restoreAll(brainState) # brainState
  /\ setBrainState(restoreAll(brainState))
  /\ UNCHANGED <<viewVars, fnVars, brainMapping, mvRef, model, ready, pendingSingle,
                 pendingMany, raf, frames, loads, result, busy, received, applied>>

\* The page switches to another organ: BrainMV unmounts, React clears the
\* ref and the effect cleanups remove the listeners; the page's organ effect
\* resets the result.
BrainUnmount ==
  /\ mvRef
  /\ mvRef' = FALSE
  /\ result' = NoResult
  /\ UNCHANGED <<viewVars, fnVars, brainMapping, model, ready, allNodes, brightNodes,
                 pendingSingle, pendingMany, raf, frames, nodeOpacity, loads, busy, received,
                 applied>>

TopRegion(id, name) == [label_id |-> id, label_name |-> name]
InferResults ==
  {[kind |-> "result", top_regions |-> rs] :
     rs \in {<<>>, <<TopRegion(1, "Hippocampus")>>,
             <<TopRegion(1, "Hippocampus"), TopRegion(2, "Thalamus")>>}}

\* onInfer up to the request.
OnInfer ==
  /\ mvRef /\ ~busy
  /\ busy' = TRUE
  /\ result' = NoResult
  /\ UNCHANGED <<viewVars, fnVars, brainMapping, mvRef, model, ready, allNodes,
                 brightNodes, pendingSingle, pendingMany, raf, frames, nodeOpacity, loads,
                 received, applied>>

\* The response arrives: setResult(data); BrainMV is rendered again with the
\* prop `affected`, which it does not declare.
InferOk ==
  /\ busy
  /\ busy' = FALSE
  /\ \E r \in InferResults : result' = r
  /\ UNCHANGED <<viewVars, fnVars, brainMapping, mvRef, model, ready, allNodes,
                 brightNodes, pendingSingle, pendingMany, raf, frames, nodeOpacity, loads,
                 received, applied>>

\* The request fails: setError.
InferFail ==
  /\ busy
  /\ busy' = FALSE
  /\ UNCHANGED <<viewVars, fnVars, brainMapping, mvRef, model, ready, allNodes,
                 brightNodes, pendingSingle, pendingMany, raf, frames, nodeOpacity, loads,
                 result, received, applied>>

BrainNext ==
  \/ HighlightRoi
  \/ HighlightRois
  \/ OnLoad
  \/ RafFire
  \/ ClearAll
  \/ BrainUnmount
  \/ OnInfer
  \/ InferOk
  \/ InferFail

BrainSpec == BrainInit /\ [][BrainNext]_vars

(***************************************************************************)
(* Specification FnSpec: the Score Selector, the Target map builder and    *)
(* the Name Matcher applied on their own to bounded inputs.                *)
(***************************************************************************)
MaxTopK == 3
MaxIndexLen == 3

Regions == {"A", "B", "C"}
ScoreValues == {Num(90), Num(50), Num(10), Num(150), Num(-20), NaN, Str(95)}
SelectThresholds == {0, 20, 50, 100}

distinctIds(xs) == \A i, j \in 1..Len(xs) : xs[i].id = xs[j].id => i = j

\* Every ScoreMap over the regions, in every iteration order.
AllScoreMaps ==
  {xs \in UNION {[1..n -> [id : Regions, score : ScoreValues]] : n \in 0..Cardinality(Regions)} :
     distinctIds(xs)}

SelectCalls ==
  {[fn |-> "affected", scores |-> xs, topK |-> k, threshold |-> t] :
     xs \in AllScoreMaps, k \in 1..MaxTopK, t \in SelectThresholds}

Segments == {"1", "2", "3"}
TargetScoreValues == {Num(40), Num(90), Num(120), NaN}
TargetScoreMaps ==
  {xs \in UNION {[1..n -> [id : Segments, score : TargetScoreValues]] : n \in 0..Cardinality(Segments)} :
     distinctIds(xs)}
DocThree ==
  Doc(<<Seg("1", <<NodeC, NodeA>>), Seg("2", <<NodeA_pad, NodeC, sBlank>>),
        Seg("3", <<NodeB, sEmpty>>)>>)
NoSegmentsDoc == [isNull |-> FALSE, hasSegments |-> FALSE, segments |-> <<>>]
TargetDocs == {NullMapping, NoSegmentsDoc, DocAB, DocFanIn, DocThree}

TargetCalls ==
  {[fn |-> "targets", mapping |-> m, scores |-> xs, topK |-> k, threshold |-> 25] :
     m \in TargetDocs, xs \in TargetScoreMaps, k \in 1..MaxTopK}

KeyNames ==
  {NodeA, NodeB, NodeA_t, NodeA_mesh, NodeA_Mesh_t, nodea, NodeOnly, sL, sT,
   sUnderscore, hippocampus_l}
RawNames ==
  {NodeA, NodeB, NodeA_t, NodeA_J, NodeA_L, NodeA_mesh, NodeA_Mesh_t, NodeA_t_mesh,
   Node_A, sMissing, Hippocampus_L}

\* Every index of at most MaxIndexLen keys, in every iteration order; the
\* node of a key is its position.
AllIndexes ==
  {[i \in 1..Len(ks) |-> [name |-> ks[i], node |-> i]] :
     ks \in {xs \in UNION {[1..n -> KeyNames] : n \in 0..MaxIndexLen} :
               \A i, j \in 1..Len(xs) : xs[i] = xs[j] => i = j}}

ResolveCalls ==
  {[fn |-> "resolveTarget", index |-> idx, raw |-> r] : idx \in AllIndexes, r \in RawNames}

\* The parts of the FormData that onInfer builds from the chosen files
\* ("null" for a file input without a file); thrown when it refuses.
Part(name, value) == [name |-> name, value |-> value]
buildFormData(organ, file, edFile, esFile) ==
  IF organ = "heart"
  THEN IF edFile = "null" /\ file = "null"
       THEN [thrown |-> TRUE, parts |-> <<>>]
       ELSE [thrown |-> FALSE,
             parts |-> (IF edFile # "null" THEN <<Part("ed_file", edFile)>> ELSE <<>>)
                    \o (IF esFile # "null"
                        THEN <<Part("es_file", esFile)>>
                        ELSE <<>>)
                    \o (IF edFile = "null" /\ file # "null"
                        THEN <<Part("file", file)>> ELSE <<>>)]
  ELSE IF file = "null"
       THEN [thrown |-> TRUE, parts |-> <<>>]
       ELSE [thrown |-> FALSE, parts |-> <<Part("file", file)>>]

Organs == {"heart", "brain"}
FormCalls ==
  {[fn |-> "onInfer", organ |-> o, file |-> f, edFile |-> ed, esFile |-> es] :
     o \in Organs, f \in {"null", "seg.nii"}, ed \in {"null", "ed.nii"},
     es \in {"null", "es.nii"}}

\* THREE.Color.setHSL(h, s, l) in ten-thousandths: the hue is taken
\* modulo 1, saturation and lightness are clamped to [0, 1].
setHSL(h, s, l) == [h |-> h % 10000, s |-> Max(0, Min(10000, s)), l |-> Max(0, Min(10000, l))]
Grey == [h |-> 0, s |-> 0, l |-> 5020]

\* The weight BrainViewer's Scene effect finds for a mesh: weightsByLabel[lid]
\* when the label and its weight exist, 0 otherwise.
Undefined == [kind |-> "undefined", v |-> 0]
weightOf(weight) == IF weight = Undefined THEN Num(0) ELSE weight

\* What BrainViewer's Scene effect writes to the material of one mesh, for
\* the weight of its label in hundredths; emissiveIntensity in
\* ten-thousandths, opacity in hundredths.
colourByWeight(weight, maxEmissiveIntensity, fadeOthers) ==
  LET x == weightOf(weight)
      w == x.v
  IN IF x.kind = "num" /\ w > 0
     THEN [highlighted |-> TRUE,
           color |-> setHSL(200 + 10 * w, 80 * w, 4500 + 25 * w),
           emissive |-> setHSL(200 + 10 * w, 80 * w, 4500 + 25 * w),
           emissiveIntensity |-> maxEmissiveIntensity * w,
           transparent |-> TRUE, opacity |-> 95]
     ELSE [highlighted |-> FALSE,
           color |-> Grey,
           emissive |-> [h |-> 0, s |-> 0, l |-> 0],
           emissiveIntensity |-> 0,
           transparent |-> fadeOthers, opacity |-> IF fadeOthers THEN 15 ELSE 95]

Weights == {Undefined, NaN, Num(-50), Num(0), Num(50), Num(100), Num(150)}
ColourCalls ==
  {[fn |-> "colourByWeight", weight |-> w, maxEmissiveIntensity |-> e, fadeOthers |-> f] :
     w \in Weights, e \in {80, 100}, f \in BOOLEAN}
LightCalls == {[fn |-> "lightMat", intensity |-> t] : t \in {-50, 0, 50, 100, 150}}

PointerCalls ==
  {[fn |-> "handlePointerDown", scene |-> sc, mapping |-> m, scores |-> xs, object |-> n] :
     sc \in PickScenes, m \in PickDocs, xs \in ScoreMaps, n \in 1..6}

FnInit ==
  /\ segmentScores = <<>> /\ topK = 8 /\ threshold = 25 /\ opacity = 15
  /\ mappingUrl = "/static/heart/mapping.json"
  /\ scene = SceneFlat /\ loaded = FALSE /\ mapping = NullMapping
  /\ fetches = {} /\ loadFailed = FALSE /\ nameIndex = <<>> /\ indexPending = FALSE
  /\ mats = [m \in Materials(scene) |-> Authored]
  /\ crashed = FALSE /\ lastPass = NoPass /\ unmounted = FALSE
  /\ BrainIdle
  /\ call \in SelectCalls \cup TargetCalls \cup ResolveCalls
               \cup {c \in PointerCalls : c.object <= Len(c.scene) /\ c.scene[c.object].isMesh}
               \cup FormCalls \cup ColourCalls \cup LightCalls
  /\ ret = NoRet

ApplyAffected ==
  /\ call.fn = "affected" /\ ~ret.done
  /\ ret' = [done |-> TRUE, value |-> affected(call.scores, call.topK, call.threshold)]
  /\ UNCHANGED <<viewVars, brainVars, pickVars, call>>

ApplyTargets ==
  /\ call.fn = "targets" /\ ~ret.done
  /\ ret' = [done |-> TRUE,
             value |-> targets(call.mapping, affected(call.scores, call.topK, call.threshold))]
  /\ UNCHANGED <<viewVars, brainVars, pickVars, call>>

ApplyResolve ==
  /\ call.fn = "resolveTarget" /\ ~ret.done
  /\ ret' = [done |-> TRUE, value |-> resolveTarget(call.index, call.raw)]
  /\ UNCHANGED <<viewVars, brainVars, pickVars, call>>

\* A pointer-select once the name index and the hit index have been built.
ApplyPointerDown ==
  /\ call.fn = "handlePointerDown" /\ ~ret.done
  /\ LET idx == buildIndex(call.scene, 1, <<>>)
     IN ret' = [done |-> TRUE,
                value |-> handlePointerDown(call.scene,
                                            buildHitIndex(call.scene, idx, call.mapping),
                                            call.scores, call.object)]
  /\ UNCHANGED <<viewVars, brainVars, pickVars, call>>

\* onInfer up to the request: the FormData of the chosen files.
ApplyBuildFormData ==
  /\ call.fn = "onInfer" /\ ~ret.done
  /\ ret' = [done |-> TRUE,
             value |-> buildFormData(call.organ, call.file, call.edFile, call.esFile)]
  /\ UNCHANGED <<viewVars, brainVars, pickVars, call>>

\* The Scene effect of BrainViewer on one mesh.
ApplyColourByWeight ==
  /\ call.fn = "colourByWeight" /\ ~ret.done
  /\ ret' = [done |-> TRUE,
             value |-> colourByWeight(call.weight, call.maxEmissiveIntensity, call.fadeOthers)]
  /\ UNCHANGED <<viewVars, brainVars, pickVars, call>>

ApplyLightMat ==
  /\ call.fn = "lightMat" /\ ~ret.done
  /\ ret' = [done |-> TRUE, value |-> lightMat(Authored, call.intensity)]
  /\ UNCHANGED <<viewVars, brainVars, pickVars, call>>

FnNext ==
  \/ ApplyAffected
  \/ ApplyTargets
  \/ ApplyResolve
  \/ ApplyPointerDown
  \/ ApplyBuildFormData
  \/ ApplyColourByWeight
  \/ ApplyLightMat

FnSpec == FnInit /\ [][FnNext]_vars

(***************************************************************************)
(* Claims about the functions (specification FnSpec).                      *)
(***************************************************************************)
selectDone == call.fn = "affected" /\ ret.done
targetsDone == call.fn = "targets" /\ ret.done
resolveDone == call.fn = "resolveTarget" /\ ret.done

\* The raw score value the ScoreMap xs holds for id.
rawScore(xs, id) == xs[CHOOSE i \in 1..Len(xs) : xs[i].id = id].score

\* C2: for every ScoreMap, every positive topK and every threshold in [0,1]
\* the Score Selector returns at most topK entries, each with a clamped
\* score >= threshold, in non-increasing score order, and never an entry
\* whose raw score is NaN or not a number.
C2_SelectorBounds ==
  selectDone =>
    LET r == ret.value
    IN /\ Len(r) <= call.topK
       /\ \A i \in 1..Len(r) : r[i].score >= call.threshold
       /\ \A i, j \in 1..Len(r) : i < j => r[i].score >= r[j].score
       /\ \A i \in 1..Len(r) :
            /\ \E j \in 1..Len(call.scores) : call.scores[j].id = r[i].id
            /\ rawScore(call.scores, r[i].id).kind = "num"

\* A selection that is cut by topK, from a ScoreMap that holds a NaN, a
\* non-number and a score above 1.
C2_Witness ==
  /\ selectDone
  /\ Len(ret.value) = call.topK
  /\ Len(call.scores) = 3
  /\ \E i \in 1..3 : call.scores[i].score = NaN
  /\ \E i \in 1..3 : call.scores[i].score = Str(95)
  /\ \E i \in 1..3 : call.scores[i].score = Num(150)
  /\ call.threshold = 100

\* The reference selection, stated by ranks: an entry is kept when its
\* score is a number, fewer than topK numeric entries come before it in the
\* descending order (earlier position first among equals) and its score is
\* not below the threshold; the kept entries are listed by rank, clamped.
refNumeric(xs) == {i \in 1..Len(xs) : xs[i].score.kind = "num"}
refBefore(xs, j, i) ==
  \/ xs[j].score.v > xs[i].score.v
  \/ (xs[j].score.v = xs[i].score.v /\ j < i)
refRank(xs, i) == Cardinality({j \in refNumeric(xs) : refBefore(xs, j, i)})
refKept(xs, k, t) ==
  {i \in refNumeric(xs) : refRank(xs, i) < k /\ xs[i].score.v >= t}
refSelect(xs, k, t) ==
  LET kept == refKept(xs, k, t)
      at(n) == CHOOSE i \in kept :
                 Cardinality({j \in kept : refRank(xs, j) < refRank(xs, i)}) = n - 1
  IN [n \in 1..Cardinality(kept) |->
        [id |-> xs[at(n)].id,
         score |-> IF xs[at(n)].score.v < 0 THEN 0
                   ELSE IF xs[at(n)].score.v > 100 THEN 100 ELSE xs[at(n)].score.v]]

ScoresABC == <<Entry("A", Num(90)), Entry("B", Num(50)), Entry("C", Num(10))>>

\* C3: the Score Selector result equals the reference 'drop non-numeric
\* entries, sort descending, keep the first topK, drop scores below the
\* threshold, clamp'; the empty ScoreMap yields the empty sequence, and
\* {A:0.9, B:0.5, C:0.1} with topK 2 and threshold 0.2 yields
\* [(A,0.9),(B,0.5)].
C3_SelectorReference ==
  selectDone =>
    /\ ret.value = refSelect(call.scores, call.topK, call.threshold)
    /\ (call.scores = <<>> => ret.value = <<>>)
    /\ (call.scores = ScoresABC /\ call.topK = 2 /\ call.threshold = 20
          => ret.value = <<[id |-> "A", score |-> 90], [id |-> "B", score |-> 50]>>)

\* The scenario of the claim has been computed.
C3_Witness ==
  /\ selectDone
  /\ call.scores = ScoresABC /\ call.topK = 2 /\ call.threshold = 20
  /\ Len(ret.value) = 2

\* The selected regions of a targets call, and the trimmed non-empty names
\* a region lists.
selectedOf(c) == affected(c.scores, c.topK, c.threshold)
listedNames(m, id) ==
  {trim(segmentEntries(m, id).items[i]) : i \in 1..Len(segmentEntries(m, id).items)} \ {<<>>}
ownersOf(m, aff, name) == {k \in 1..Len(aff) : name \in listedNames(m, aff[k].id)}
maxScore(aff, ks) == CHOOSE w \in {aff[k].score : k \in ks} : \A k \in ks : aff[k].score <= w
reverse(xs) == [i \in 1..Len(xs) |-> xs[Len(xs) + 1 - i]]
asRelation(map) == {<<map[i].name, map[i].w>> : i \in 1..Len(map)}

\* C4: the Target map holds exactly the non-empty trimmed names listed by
\* a selected region, each once, with the maximum score over the selected
\* regions that list it, whatever the order in which the regions are
\* processed; a name only unselected regions list is absent.
C4_TargetsMaxFanIn ==
  targetsDone /\ ~call.mapping.isNull =>
    LET aff == selectedOf(call)
        map == ret.value.map
        names == UNION {listedNames(call.mapping, call.mapping.segments[i].id) :
                          i \in 1..Len(call.mapping.segments)}
    IN /\ ~ret.value.thrown
       /\ \A i, j \in 1..Len(map) : map[i].name = map[j].name => i = j
       /\ \A i \in 1..Len(map) : map[i].name \in names
       /\ \A n \in names :
            IF ownersOf(call.mapping, aff, n) = {}
            THEN ~mapHas(map, n)
            ELSE /\ mapHas(map, n)
                 /\ mapGetOr0(map, n) = maxScore(aff, ownersOf(call.mapping, aff, n))
       /\ asRelation(targets(call.mapping, reverse(aff)).map) = asRelation(map)

\* NodeC is listed by the regions scored 0.4 and 0.9, both selected, and
\* NodeB only by a region that is not selected.
C4_Witness ==
  /\ targetsDone
  /\ call.mapping = DocThree
  /\ call.scores = <<Entry("1", Num(40)), Entry("2", Num(90)), Entry("3", NaN)>>
  /\ call.topK = 3
  /\ mapGetOr0(ret.value.map, NodeC) = 90
  /\ ~mapHas(ret.value.map, NodeB)

\* C9: the tiers are tried in the order exact, variant, fuzzy: a key equal
\* to the target decides the result whatever matches at a later tier, and
\* without one a key equal to a variant of the target decides it whatever
\* the fuzzy comparison would pick; only without both is the result the
\* first fuzzy match, or no node.
C9_TierOrder ==
  resolveDone =>
    LET keys == indexKeys(call.index)
        vs == {variants(call.raw)[i] : i \in 1..Len(variants(call.raw))}
    IN /\ call.raw \in keys => ret.value = indexGet(call.index, call.raw)
       /\ (call.raw \notin keys /\ vs \cap keys # {})
            => ret.value \in {indexGet(call.index, v) : v \in vs \cap keys}
       /\ (call.raw \notin keys /\ vs \cap keys = {})
            => ret.value = firstFuzzyHit(call.index, norm(call.raw))

\* The exact key wins although an earlier key matches fuzzily.
C9_Witness ==
  /\ resolveDone
  /\ call.raw \in indexKeys(call.index)
  /\ firstFuzzyHit(call.index, norm(call.raw)) # NoNode
  /\ firstFuzzyHit(call.index, norm(call.raw)) # ret.value

\* A trailing dot-suffix token of one or two characters, removed.
claimedDotStrip(s) ==
  IF Len(s) >= 2 /\ s[Len(s) - 1] = "." /\ IsAlnum(s[Len(s)])
  THEN SubSeq(s, 1, Len(s) - 2)
  ELSE IF Len(s) >= 3 /\ s[Len(s) - 2] = "." /\ IsAlnum(s[Len(s) - 1]) /\ IsAlnum(s[Len(s)])
  THEN SubSeq(s, 1, Len(s) - 3)
  ELSE s

RECURSIVE wordsOf(_, _)
wordsOf(s, cur) ==
  IF s = <<>> THEN (IF cur = <<>> THEN <<>> ELSE <<cur>>)
  ELSE IF IsAlnum(Head(s)) THEN wordsOf(Tail(s), cur \o <<toLowerCase(Head(s))>>)
  ELSE (IF cur = <<>> THEN <<>> ELSE <<cur>>) \o wordsOf(Tail(s), <<>>)

RECURSIVE joinWords(_)
joinWords(ws) ==
  IF ws = <<>> THEN <<>>
  ELSE IF Len(ws) = 1 THEN ws[1]
  ELSE ws[1] \o <<" ">> \o joinWords(Tail(ws))

\* The normalized form as the claim words it: the words joined by one space.
normalForm(s) == joinWords(wordsOf(s, <<>>))

\* a occurs in b as a contiguous substring.
containedIn(a, b) == \E i \in 1..(Len(b) + 1) : \E j \in (i - 1)..Len(b) : SubSeq(b, i, j) = a

\* The positions of the keys whose normalized form equals the normalized
\* target, contains it or is contained in it.
fuzzyPositions(idx, raw) ==
  {i \in 1..Len(idx) :
     LET n == normalForm(idx[i].name)
         t == normalForm(raw)
     IN n = t \/ containedIn(t, n) \/ containedIn(n, t)}

noEarlierTier(idx, raw) ==
  /\ raw \notin indexKeys(idx)
  /\ \A i \in 1..Len(variants(raw)) : variants(raw)[i] \notin indexKeys(idx)

\* C11: when neither the exact nor the variant tier matches, the result is
\* the node of the first key, in index iteration order, whose normalized
\* form equals the normalized target, contains it or is contained in it;
\* the result is no node exactly when no key is such a key.
C11_FuzzyTier ==
  resolveDone /\ noEarlierTier(call.index, call.raw) =>
    LET hits == fuzzyPositions(call.index, call.raw)
    IN /\ (ret.value = NoNode) <=> (hits = {})
       /\ hits # {} =>
            ret.value = call.index[CHOOSE i \in hits : \A j \in hits : i <= j].node

\* "Hippocampus L" resolves against the key "hippocampus l", which is not
\* the first key of the index.
C11_Witness ==
  /\ resolveDone
  /\ call.raw = Hippocampus_L
  /\ noEarlierTier(call.index, call.raw)
  /\ Len(call.index) >= 2
  /\ call.index[2].name = hippocampus_l
  /\ ret.value = 2

\* A key that only is contained in the target is found, and no key at all
\* leaves the target not found.
C11_ContainedReached ==
  /\ resolveDone
  /\ call.raw = NodeA_L
  /\ indexKeys(call.index) = {nodea, NodeB}
  /\ ret.value = indexGet(call.index, nodea)

formDone == call.fn = "onInfer" /\ ret.done

\* C21: for a heart submission with an ED mask and no ES mask the request
\* carries the ED mask in the ES part as well.
C21_EdReusedForEs ==
  (formDone /\ call.organ = "heart" /\ call.edFile # "null" /\ call.esFile = "null") =>
    /\ ~ret.value.thrown
    /\ \E i \in 1..Len(ret.value.parts) :
         ret.value.parts[i] = Part("es_file", call.edFile)

\* HeartMV's lightMat scales the glow by an intensity within [0, 1].
C26_HeartGlowClamped ==
  (call.fn = "lightMat" /\ ret.done) =>
    \E t \in 0..100 : ret.value.emissive = <<6 * t, t, t>>

\* BrainViewer's colouring scales the glow of a highlighted material by an
\* intensity within [0, 1].
C26_BrainGlowClamped ==
  (call.fn = "colourByWeight" /\ ret.done /\ ret.value.highlighted) =>
    ret.value.emissiveIntensity \in 0..10000

\* C26: for every score or weight, also below 0 or above 1, the intensity
\* that scales the glow of a highlighted material is within [0, 1], in
\* HeartMV's lightMat and in BrainViewer's colouring by weight.
C26_GlowWithinUnitRange == C26_HeartGlowClamped /\ C26_BrainGlowClamped

pointerDone == call.fn = "handlePointerDown" /\ ret.done

\* The RegionIds with a mapping target that resolves to a node containing
\* the object obj.
candidatesOf(sc, m, obj) ==
  LET idx == buildIndex(sc, 1, <<>>)
      segs == IF m.isNull THEN <<>> ELSE m.segments
  IN {segs[i].id : i \in
        {i \in 1..Len(segs) :
           \E j \in 1..Len(segs[i].items) :
             LET node == resolveTargetG(idx, segs[i].items[j])
             IN node # NoNode /\ isWithin(sc, obj, node)}}

\* The current score of a RegionId, a missing one counting as 0.
currentScore(scores, sid) == scoreOf(scores, sid).v

\* C18: a pointer-select reports a RegionId of the highest current score
\* among the RegionIds whose targets resolve to a node containing the
\* selected object, and reports the node as unmapped when there is none.
C18_PickHighestCandidate ==
  (pointerDone /\ \A i \in 1..Len(call.scores) : call.scores[i].score.kind = "num") =>
    LET cands == candidatesOf(call.scene, call.mapping, call.object)
    IN IF cands = {}
       THEN ret.value.kind # "segment"
       ELSE /\ ret.value.kind = "segment"
            /\ ret.value.found
            /\ ret.value.segmentId \in cands
            /\ \A c \in cands :
                 currentScore(call.scores, c) <= currentScore(call.scores, ret.value.segmentId)

\* The positions of the numeric entries of the ScoreMap xs.
numericAt(xs) == {i \in 1..Len(xs) : isNumber(xs[i].score)}

retIds == {ret.value[i].id : i \in 1..Len(ret.value)}
retPos(id) == CHOOSE i \in 1..Len(ret.value) : ret.value[i].id = id

\* C19: of two entries with equal scores the one earlier in the ScoreMap's
\* iteration order comes first in the selection, and when the topK cut
\* falls between them the earlier one is the one kept.
C19_StableTies ==
  selectDone =>
    \A i, j \in numericAt(call.scores) :
      (i < j /\ call.scores[i].score.v = call.scores[j].score.v) =>
        /\ call.scores[j].id \in retIds => call.scores[i].id \in retIds
        /\ call.scores[j].id \in retIds =>
             retPos(call.scores[i].id) < retPos(call.scores[j].id)

\* Two regions tie at 0.5 behind a higher one and topK 2 cuts between them:
\* the one earlier in the ScoreMap is kept.
C19_Witness ==
  /\ selectDone
  /\ call.scores = <<Entry("B", Num(50)), Entry("A", Num(50)), Entry("C", Num(90))>>
  /\ call.topK = 2 /\ call.threshold = 20
  /\ ret.value = <<[id |-> "C", score |-> 90], [id |-> "B", score |-> 50]>>

\* A document in the accepted shape {segments: RegionId -> list of names}.
wellFormed(m) ==
  /\ ~m.isNull /\ m.hasSegments
  /\ \A i \in 1..Len(m.segments) : m.segments[i].isList

\* C20: the document in shape (a) and the document in shape (b) with the
\* same region-to-name content give the same Target map for every ScoreMap.
C20_ShapesEquivalent ==
  (targetsDone /\ wellFormed(call.mapping)) =>
    targets(shapeA(call.mapping), affected(call.scores, call.topK, call.threshold))
      = ret.value

(***************************************************************************)
(* Claims about the viewer (specification Spec).                           *)
(***************************************************************************)
isDimmed(m, o) ==
  m = [transparent |-> TRUE, opacity |-> o, color |-> White, emissive |-> Black]
isHighlighted(m, t) ==
  m = [transparent |-> FALSE, opacity |-> 100, color |-> Warm, emissive |-> <<6 * t, t, t>>]

meshesOf(sc) == {n \in 1..Len(sc) : sc[n].isMesh}
matsOf(sc, n) == {sc[n].mats[i] : i \in 1..Len(sc[n].mats)}
SumLens(sc) ==
  LET RECURSIVE sum(_)
      sum(n) == IF n = 0 THEN 0
                ELSE sum(n - 1) + (IF sc[n].isMesh THEN Len(sc[n].mats) ELSE 0)
  IN sum(Len(sc))

AllDimmed == \A n \in meshesOf(scene) : \A m \in matsOf(scene, n) : isDimmed(mats[m], opacity)
lightsIn(calls) == {i \in 1..Len(calls) : calls[i].op = "light"}
fadesIn(calls) == {i \in 1..Len(calls) : calls[i].op = "fade"}

\* C1: in every pass the dim sweep over all meshes comes first and is
\* complete, also when the Target map is empty; no highlight mutation
\* precedes a dim mutation of the pass; and the materials show the calls of
\* this one pass only: each is as the last call of the pass on it left it.
C1_DimBeforeHighlight ==
  lastPass.ran =>
    LET c == lastPass.calls
        k == Cardinality(fadesIn(c))
    IN /\ \A i \in 1..Len(c) : (c[i].op = "fade") <=> (i <= k)
       /\ k = SumLens(scene)
       /\ \A n \in meshesOf(scene) : \A m \in matsOf(scene, n) :
            \E i \in 1..k : c[i].mat = m
       /\ \A i \in lightsIn(c) : c[i].w = clamp01(c[i].w)
       /\ \A m \in Materials(scene) :
            LET last == CHOOSE i \in 1..Len(c) :
                          c[i].mat = m /\ \A j \in 1..Len(c) : c[j].mat = m => j <= i
            IN IF c[last].op = "fade" THEN isDimmed(mats[m], opacity)
               ELSE isHighlighted(mats[m], c[last].w)

\* A pass that dimmed every mesh and then highlighted two targets.
C1_Witness ==
  /\ lastPass.ran
  /\ Len(lastPass.tmap) = 2
  /\ Cardinality(lightsIn(lastPass.calls)) >= 2
  /\ Cardinality(fadesIn(lastPass.calls)) = SumLens(scene)

\* A pass with an empty Target map that dimmed materials an earlier pass
\* had highlighted.
C1_EmptyTargetsReached ==
  /\ lastPass.ran /\ lastPass.withMapping
  /\ lastPass.tmap = <<>>
  /\ lastPass.calls # <<>>

\* C5: a pass that runs again with the same ScoreMap, topK, threshold,
\* mapping, name index and dim opacity as the pass before it leaves the
\* state of every material as that pass left it.
C5_PassIdempotent == [][lastPass'.repeat => mats' = mats]_vars

\* A repeated pass that highlighted something.
C5_Witness ==
  /\ lastPass.ran /\ lastPass.repeat
  /\ lightsIn(lastPass.calls) # {}
  /\ \E m \in Materials(scene) : ~isDimmed(mats[m], opacity)

\* C6: a failed mapping load throws nothing and leaves the mapping as it
\* was; while the mapping is unavailable no render throws, and every pass
\* leaves all meshes dimmed and highlights nothing.
C6_MappingUnavailable ==
  /\ [](mapping.isNull =>
          /\ ~crashed
          /\ lastPass.ran => (AllDimmed /\ lightsIn(lastPass.calls) = {}))
  /\ [][FetchFail => (mapping' = mapping /\ crashed' = crashed /\ mats' = mats)]_vars

\* The only mapping request has failed, and a pass over a non-empty
\* ScoreMap has run after the failure.
C6_Witness ==
  /\ loadFailed /\ fetches = {} /\ mapping.isNull
  /\ lastPass.ran /\ lastPass.afterLoadFailed /\ ~indexPending
  /\ segmentScores = <<Entry("1", Num(80)), Entry("2", Num(30))>>
  /\ AllDimmed

related(sc, a, b) == isWithin(sc, a, b) \/ isWithin(sc, b, a)

\* C7 as stated, for scenes in which neither of NodeA and NodeB contains
\* the other: ScoreMap {"1":0.8, "2":0.3}, topK 8, threshold 0.25, mapping
\* {"1":["NodeA"], "2":["NodeB"]} and an index holding both names leave the
\* meshes under NodeA highlighted at 0.8, those under NodeB at 0.3 and
\* every other mesh dimmed.
C7_Scenario ==
  LET a == indexGet(lastPass.index, NodeA)
      b == indexGet(lastPass.index, NodeB)
  IN (/\ lastPass.ran
      /\ segmentScores = <<Entry("1", Num(80)), Entry("2", Num(30))>>
      /\ topK = 8 /\ threshold = 25
      /\ mapping = DocAB
      /\ a # NoNode /\ b # NoNode /\ ~related(scene, a, b))
     => \A n \in meshesOf(scene) : \A m \in matsOf(scene, n) :
          IF isWithin(scene, n, a) THEN isHighlighted(mats[m], 80)
          ELSE IF isWithin(scene, n, b) THEN isHighlighted(mats[m], 30)
          ELSE isDimmed(mats[m], opacity)

\* The targets of the last pass whose resolved node contains the mesh n.
coveringTargets(n) ==
  {i \in 1..Len(lastPass.tmap) :
     /\ resolveTarget(lastPass.index, lastPass.tmap[i].name) # NoNode
     /\ isWithin(scene, n, resolveTarget(lastPass.index, lastPass.tmap[i].name))}
maxIntensity(is) ==
  CHOOSE w \in {lastPass.tmap[i].w : i \in is} : \A i \in is : lastPass.tmap[i].w <= w

\* C8 as stated: a mesh that lies under the nodes of two or more targets of
\* a pass ends the pass highlighted at the highest of their intensities.
C8_HighestWins ==
  lastPass.ran =>
    \A n \in meshesOf(scene) :
      Cardinality(coveringTargets(n)) >= 2 =>
        \A m \in matsOf(scene, n) : isHighlighted(mats[m], maxIntensity(coveringTargets(n)))

\* A parsed mapping document in neither accepted shape.
\* The meshes that use the material m.
usersOf(sc, m) == {n \in meshesOf(sc) : m \in matsOf(sc, n)}
sharesMaterials(sc) == \E m \in Materials(sc) : Cardinality(usersOf(sc, m)) > 1

\* C22: after every completed pass each material of each mesh is either in
\* the dimmed baseline or highlighted, and a mesh is highlighted only if it
\* lies under a node that a target of the pass resolved to; in every scene,
\* also one in which meshes share a material.
C22_HighlightedOnlyUnderTargets ==
  lastPass.ran =>
    \A n \in meshesOf(scene) : \A m \in matsOf(scene, n) :
      /\ isDimmed(mats[m], opacity) \/ \E w \in 0..100 : isHighlighted(mats[m], w)
      /\ (\E w \in 0..100 : isHighlighted(mats[m], w)) => coveringTargets(n) # {}

\* The same statement for the scenes in which no two meshes share a material.
C22_UnsharedScenes == sharesMaterials(scene) \/ C22_HighlightedOnlyUnderTargets

\* No input change is pending: the asset is loaded, the render that
\* setNameIndex asked for has run, and no mapping request that may still set
\* the mapping is in flight.
settled ==
  /\ loaded /\ ~indexPending /\ ~unmounted
  /\ \A f \in fetches : ~f.on

\* The materials after one pass over the scene as authored, with the current
\* ScoreMap, topK, threshold, mapping and the index of the scene.
fromScratch ==
  LET tg == targets(mapping, affected(segmentScores, topK, threshold))
  IN [thrown |-> tg.thrown,
      mats |-> applyCalls([m \in Materials(scene) |-> Authored],
                          passCalls(scene, buildIndex(scene, 1, <<>>), tg.map), opacity)]

\* C23: once no change is pending, the state of the materials is the result
\* of one from-scratch pass over the current ScoreMap, mapping and index,
\* whatever the order in which props, mapping and asset arrived.
C23_ConvergesToFromScratch ==
  settled =>
    IF fromScratch.thrown THEN crashed
    ELSE ~crashed /\ mats = fromScratch.mats

\* Settled after the mapping arrived last, behind a change of mappingUrl
\* and of the props, with something highlighted.
C23_Witness ==
  /\ settled /\ ~crashed /\ fetches = {}
  /\ mappingUrl # "/static/heart/mapping.json"
  /\ lightsIn(lastPass.calls) # {}
  /\ \E m \in Materials(scene) : isDimmed(mats[m], opacity)

\* C24: no pass resolves its targets against the index of a scene other
\* than the one that is loaded: after the asset has changed, no pass runs
\* with the index of the previous scene.
C24_NoPassWithPreviousIndex ==
  lastPass.ran => ~staleIndex(scene, lastPass.index)

\* The first sentence of C24 to the letter: the index of every pass is the
\* one built by traversing the loaded scene.
C24_IndexOfLoadedScene ==
  lastPass.ran => lastPass.index = buildIndex(scene, 1, <<>>)

\* The targets of the last pass whose name did not resolve.
unresolved ==
  {k \in 1..Len(lastPass.tmap) :
     resolveTarget(lastPass.index, lastPass.tmap[k].name) = NoNode}

C27_PointerDownReadOnly ==
  [][selected' # selected =>
       UNCHANGED <<mats, nameIndex, hitIndex, mapping, segmentScores>>]_vars

\* A click reported a mapped segment while a material is highlighted and
\* the hit index is built.
C27_Witness ==
  /\ selected.kind = "segment"
  /\ hitIndex # <<>>
  /\ \E m \in Materials(scene) : \E w \in 1..100 : isHighlighted(mats[m], w)

\* The URL the document m is served at.
servedAt(m) == {u \in MappingUrls : m \in DocsAt(u)}

\* C29: a pass that uses a mapping uses one fetched from the current
\* mappingUrl: no response for a superseded URL becomes the mapping, and
\* once mappingUrl has changed no pass uses the mapping of the previous URL,
\* also while the request for the new URL is pending or after it failed.
C29_MappingOfCurrentUrl ==
  [][/\ (mapping' # mapping => mappingUrl' \in servedAt(mapping'))
     /\ ((lastPass' # lastPass /\ lastPass'.withMapping) =>
            mappingUrl' \in servedAt(mapping'))]_vars

\* The first half of C29: a response sets the mapping only when it answers
\* the request for the current mappingUrl.
C29_NoSupersededResponse ==
  [][mapping' # mapping => mappingUrl' \in servedAt(mapping')]_vars

malformed(m) == ~m.isNull /\ ~wellFormed(m)

\* C16: with a mapping document in neither accepted shape no render throws
\* and every pass leaves all meshes dimmed and highlights nothing.
C16_MalformedUnavailable ==
  malformed(mapping) =>
    /\ ~crashed
    /\ lastPass.ran /\ lastPass.withMapping
         => (AllDimmed /\ lightsIn(lastPass.calls) = {})

(***************************************************************************)
(* The page with either viewer mounted, and BrainMV under the scheduling   *)
(* the browser provides: the asset loads, animation frames are delivered   *)
(* and the inference request completes.                                    *)
(***************************************************************************)
PageSpec == (Init \/ BrainInit) /\ [][Next \/ BrainNext]_vars

BrainLive ==
  BrainSpec /\ WF_vars(OnLoad) /\ WF_vars(RafFire) /\ WF_vars(InferOk \/ InferFail)

(***************************************************************************)
(* Claims about BrainMV (specifications BrainSpec, BrainLive, PageSpec).   *)
(***************************************************************************)
appliedReqs == {applied[i].req : i \in 1..Len(applied)}
queuedReqs == {i \in 1..Len(received) : received[i].queued}

\* Nothing is on its way: the asset has loaded and no frame callback waits.
brainQuiet == mvRef /\ model /\ raf = NoRaf

\* C12: a request that arrived before the node API was available is queued
\* and applied exactly once after the load event: no request is applied
\* twice, and once the asset has loaded and the frame callback has run, the
\* queued request that no later request replaced has been applied.
C12_QueuedAppliedOnce ==
  /\ \A i, j \in 1..Len(applied) : applied[i].req = applied[j].req => i = j
  /\ (brainQuiet /\ received # <<>> /\ received[Len(received)].queued)
       => Len(received) \in appliedReqs

\* C13: of the requests that arrived while the asset was loading, only the
\* most recently received one is ever applied.
C13_LatestPendingWins ==
  \A r \in appliedReqs \cap queuedReqs : \A q \in queuedReqs : q <= r

\* The nodes an applied request before the last one made bright.
earlierBright(log) ==
  UNION {seqRange(log[i].found) : i \in 1..(Len(log) - 1)}

\* C15: when a request has been applied, every node that an earlier request
\* made bright and that the current request does not resolve is dimmed.
C15_NoStaleHighlight ==
  [][applied' # applied =>
       \A n \in earlierBright(applied') \ seqRange(applied'[Len(applied')].found) :
         nodeOpacity'[n] = dimOpacity]_vars

\* C14: after a viewer has unmounted nothing changes its state: a frame
\* callback of BrainMV that runs later changes no node's opacity, and a
\* mapping request of HeartMV that completes later does not set the mapping.
C14_NoChangeAfterUnmount ==
  [][/\ (~mvRef => /\ nodeOpacity' = nodeOpacity
                    /\ brightNodes' = brightNodes
                    /\ applied' = applied)
     /\ (unmounted => /\ mapping' = mapping
                       /\ mats' = mats
                       /\ nameIndex' = nameIndex
                       /\ lastPass' = lastPass)]_vars

\* BrainMV has unmounted with a frame callback scheduled, and the callback
\* has run since.
C14_Witness ==
  /\ ~mvRef /\ model
  /\ Len(received) = 1 /\ ~received[1].queued
  /\ raf = NoRaf
  /\ applied = <<>>

\* HeartMV has unmounted with the mapping request in flight, and the
\* request has succeeded since.
C14_FetchAfterUnmount ==
  /\ unmounted /\ ~mvRef /\ loaded
  /\ fetches = {} /\ ~loadFailed
  /\ mapping = NullMapping

\* The nodes the mapping and the label names give for the first three top
\* regions of an inference result.
topRegionNodes(r) ==
  LET top == slice(r.top_regions, 3)
  IN {nm \in seqRange(labelsToNodeNames([i \in 1..Len(top) |-> top[i].label_id],
                                        [i \in 1..Len(top) |-> top[i].label_name])) :
        nm \in BrainNodeSet}

\* C17: after an inference has succeeded with top regions whose targets are
\* nodes of the asset, the mounted brain viewer eventually has those nodes
\* highlighted (unless the result is replaced or the viewer unmounts).
C17_ResultReachesViewer ==
  \A r \in InferResults :
    (result = r /\ mvRef /\ topRegionNodes(r) # {})
      ~> (result # r \/ ~mvRef \/ topRegionNodes(r) \subseteq seqRange(brightNodes))

\* C28: the inference result the page holds belongs to the selected organ.
\* Every request of BrainSpec is started for the brain, so once the organ
\* selection has left the brain the page holds no result.
C28_ResultOfSelectedOrgan == ~mvRef => result = NoResult

\* C30: schedule keeps at most one frame callback pending; scheduling a
\* highlight cancels the pending one, so the callback a frame runs is the one
\* scheduled last, no other is left to run, and no request runs twice.
C30_OnePendingFrame ==
  /\ [](/\ Cardinality(frames) <= 1
        /\ frames = (IF raf = NoRaf THEN {} ELSE {raf})
        /\ \A i, j \in 1..Len(applied) : applied[i].req = applied[j].req => i = j)
  /\ [][(frames' # frames /\ frames' \subseteq frames) =>
          /\ frames = {raf} /\ frames' = {} /\ raf' = NoRaf
          /\ applied' # applied => applied'[Len(applied')].req = raf.req]_vars

\* Two requests were scheduled within one frame; the frame ran the second
\* and nothing is pending.
C30_Witness ==
  /\ mvRef /\ model
  /\ Len(received) = 2 /\ ~received[1].queued /\ ~received[2].queued
  /\ frames = {} /\ raf = NoRaf
  /\ Len(applied) = 1 /\ applied[1].req = 2

====
